---- MODULE Spec2Model ----
(***************************************************************************)
(* Model of the data-quality / trust-scoring engine, quality_checks        *)
(* (src/src/quality.py), driven by the event generator of                  *)
(* src/src/data_gen.py and the pipeline of src/run_all.py.                 *)
(*                                                                         *)
(* Numbers.  Scores are floats in [0,1] in the code; here a score is an    *)
(* integer number of 1/Scale units (Scale = 10000, so 0.55 is 5500), and   *)
(* trust_score, in [0,100], is in the same unit (100.0 is 100 * Scale).    *)
(* Divisions round down to that unit.  A pandas Series indexed by date is  *)
(* a function whose DOMAIN is the set of dates that have a row: a date     *)
(* with no row is absent, exactly as after groupby("date").size().         *)
(* A timestamp is an integer number of ticks, TicksPerDay ticks to a day;  *)
(* a date is the timestamp of its midnight.                                *)
(***************************************************************************)
EXTENDS Integers, Sequences, FiniteSets, TLC

VARIABLES events, stage, q, error

vars == <<events, stage, q, error>>

(***************************************************************************)
(* Bounds of the model.                                                    *)
(***************************************************************************)
\* rows of a hand-built table (AppendEvent)
MaxEvents == 2
\* days written by the generator (Generate)
MaxGenDays == 9
\* the largest timestamp of an appended row
MaxTs == 4
\* the last day of the generated table that a failure is injected on
MaxInjectDay == 2

\* ticks in one calendar day: what floor("D") rounds down to
TicksPerDay == 2

\* fixed-point unit of a score
Scale == 100 * 100
\* internal unit of the exponential's series
ExpScale == 100 * Scale
\* the series stops at the first term below one unit, at the latest here
ExpTerms == 40

(***************************************************************************)
(* Program constants.                                                      *)
(***************************************************************************)
RollingWindow == 7
ZThresholdTenths == 28
SchemaDriftPct == 60
VolumeAnomalyPct == 55
OutagePct == 70
WeightCompleteness == 30
WeightSchema == 20
WeightUniqueness == 20
WeightVolume == 15
WeightValidity == 15

(***************************************************************************)
(* The event table.  amount is optional: {} is null (None/NaN), {a} is a.  *)
(***************************************************************************)
Users == {1}
EventNames == {"session_start", "level_complete", "purchase", "in_app_purchase"}
PurchaseNames == {"purchase", "in_app_purchase"}
Null == {}
AmountValues == {-1, 5}

Event(u, ts, n, a) == [user_id |-> u, event_ts |-> ts, event_name |-> n, amount |-> a]

AmountsOf(n) == IF n \in PurchaseNames THEN {Null} \cup {{a} : a \in AmountValues} ELSE {Null}

Universe ==
  UNION {{Event(u, ts, n, a) : a \in AmountsOf(n)} : u \in Users, ts \in 0..MaxTs, n \in EventNames}

(***************************************************************************)
(* Small helpers over finite sets and date-indexed series.                 *)
(***************************************************************************)
SetMin(S) == CHOOSE x \in S : \A y \in S : x <= y
SetMax(S) == CHOOSE x \in S : \A y \in S : x >= y
Abs(x) == IF x < 0 THEN -x ELSE x

RECURSIVE SumOver(_, _)
SumOver(s, D) ==
  IF D = {} THEN 0
  ELSE LET d == CHOOSE x \in D : TRUE IN s[d] + SumOver(s, D \ {d})

RECURSIVE SumSqOver(_, _)
SumSqOver(s, D) ==
  IF D = {} THEN 0
  ELSE LET d == CHOOSE x \in D : TRUE IN s[d] * s[d] + SumSqOver(s, D \ {d})

\* df["date"] = df["event_ts"].dt.floor("D")
date(r) == r.event_ts - (r.event_ts % TicksPerDay)

\* df[rows].groupby("date").size(): one entry per date that has a row in I
GroupSize(df, I) ==
  [d \in {date(df[i]) : i \in I} |-> Cardinality({i \in I : date(df[i]) = d})]

\* the index labels of the rows of the window of rolling(7) that ends at d:
\* the last RollingWindow ROWS of the series up to d (an integer window counts
\* rows of the series, whatever their dates)
WindowRows(s, d) ==
  {x \in DOMAIN s : x <= d /\ Cardinality({y \in DOMAIN s : x < y /\ y <= d}) < RollingWindow}

\* the k-th smallest of the values of a set of <<label, value>> pairs
\* (1-based, with repetitions)
Kth(vals, k) ==
  LET p == CHOOSE v \in vals :
             /\ Cardinality({o \in vals : o[2] < v[2]}) < k
             /\ Cardinality({o \in vals : o[2] <= v[2]}) >= k
  IN p[2]

\* twice the median of s over the labels W: the middle value, or the mean
\* of the two middle values
Median2(s, W) ==
  LET vals == {<<x, s[x]>> : x \in W}
      n == Cardinality(W)
  IN IF n % 2 = 1 THEN 2 * Kth(vals, (n + 1) \div 2)
     ELSE Kth(vals, n \div 2) + Kth(vals, n \div 2 + 1)

\* s.rolling(7, min_periods=1).median(), doubled
RollingMedian2(s) == [d \in DOMAIN s |-> Median2(s, WindowRows(s, d))]

\* Clip without the upper bound
ClipLowerOnly(x, lo, hi) == IF x < lo THEN lo ELSE x

\* .clip(lo, hi)
Clip(x, lo, hi) == IF x < lo THEN lo ELSE IF x > hi THEN hi ELSE x

(***************************************************************************)
(* Completeness: purchase-type rows per day against the rolling median.    *)
(***************************************************************************)
\* purch = df[df["event_name"].isin(["purchase", "in_app_purchase"])]
purch(df) == {i \in DOMAIN df : df[i].event_name \in PurchaseNames}

purchase_events(df) == GroupSize(df, purch(df))

\* twice purchase_events.rolling(7, min_periods=1).median(); the code's
\* .replace(0, np.nan) is the zero test of score_completeness
baseline_purchase(df) == RollingMedian2(purchase_events(df))

\* (purchase_events / baseline_purchase).clip(0, 1).fillna(0)
score_completeness(df) ==
  LET pe == purchase_events(df)
      b2 == baseline_purchase(df)
  IN [d \in DOMAIN pe |->
        IF b2[d] = 0 THEN 0 ELSE Clip((2 * pe[d] * Scale) \div b2[d], 0, Scale)]

(***************************************************************************)
(* Schema drift.                                                           *)
(***************************************************************************)
\* (df[df["event_name"] == name].groupby("date").size() > 0).astype(int)
HasName(df, name) ==
  LET size == GroupSize(df, {i \in DOMAIN df : df[i].event_name = name})
  IN [d \in DOMAIN size |-> IF size[d] > 0 THEN 1 ELSE 0]

has_purchase(df) == HasName(df, "purchase")
has_iap(df) == HasName(df, "in_app_purchase")

\* a & b of two boolean Series: both are reindexed to the union of their
\* indexes, and a label missing from either side counts as False
AlignedAnd(a, b) ==
  [d \in DOMAIN a \cup DOMAIN b |->
     /\ d \in DOMAIN a
     /\ d \in DOMAIN b
     /\ a[d]
     /\ b[d]]

\* ((has_iap == 1) & (has_purchase == 0)).astype(int)
schema_drift_flag(df) ==
  LET iap == has_iap(df)
      pur == has_purchase(df)
      both == AlignedAnd([d \in DOMAIN iap |-> iap[d] = 1], [d \in DOMAIN pur |-> pur[d] = 0])
  IN [d \in DOMAIN both |-> IF both[d] THEN 1 ELSE 0]

\* np.where(schema_drift_flag == 1, 0.60, 1.00)
score_schema(df) ==
  LET flag == schema_drift_flag(df)
  IN [d \in DOMAIN flag |-> IF flag[d] = 1 THEN SchemaDriftPct * (Scale \div 100) ELSE Scale]

(***************************************************************************)
(* Uniqueness.                                                             *)
(***************************************************************************)
DupKey(r) == <<r.user_id, r.event_ts, r.event_name, r.amount>>

\* df.duplicated(subset=[...], keep=False): every row of a repeated key
\* (a null amount equals a null amount)
dup_mask(df) ==
  {i \in DOMAIN df : \E j \in DOMAIN df : j # i /\ DupKey(df[j]) = DupKey(df[i])}

dup_count(df) == GroupSize(df, dup_mask(df))

\* twice dup_count.rolling(7, min_periods=1).median().fillna(0)
dup_baseline(df) == RollingMedian2(dup_count(df))

\* exp(-num/den) in 1/ExpScale units by its power series: term is the
\* previous term x^(k-1)/(k-1)!, acc the sum of the terms before the k-th
RECURSIVE ExpSeries(_, _, _, _, _)
ExpSeries(num, den, k, term, acc) ==
  LET t == (term * num) \div (den * k)
  IN IF t = 0 \/ k > ExpTerms THEN acc
     ELSE ExpSeries(num, den, k + 1, t, IF k % 2 = 1 THEN acc - t ELSE acc + t)

\* np.exp(-(num/den)) in 1/Scale units
ExpNeg(num, den) == ExpSeries(num, den, 1, ExpScale, ExpScale) \div (ExpScale \div Scale)

\* np.exp(-(dup_count / (dup_baseline + 1)))
score_uniqueness(df) ==
  LET c == dup_count(df)
      b2 == dup_baseline(df)
  IN [d \in DOMAIN c |-> ExpNeg(2 * c[d], b2[d] + 2)]

(***************************************************************************)
(* Volume anomaly.                                                         *)
(***************************************************************************)
sessions(df) == GroupSize(df, {i \in DOMAIN df : df[i].event_name = "session_start"})

\* |(x - mean) / std| > 2.8 for a series of n values with sum S and sum of
\* squares Q: mean = S/n and std(ddof=0)^2 = (n*Q - S*S)/n^2, and std is
\* replaced by 1.0 when it is 0.  Both sides are multiplied out so that the
\* comparison is exact.
ZExceeds(x, n, S, Q) ==
  IF n * Q - S * S = 0
  THEN 10 * Abs(n * x - S) > ZThresholdTenths * n
  ELSE 100 * (n * x - S) * (n * x - S) > ZThresholdTenths * ZThresholdTenths * (n * Q - S * S)

\* (z.abs() > 2.8).astype(int), z over the days that have a session_start
volume_anomaly_flag(df) ==
  LET s == sessions(df)
      n == Cardinality(DOMAIN s)
      S == SumOver(s, DOMAIN s)
      Q == SumSqOver(s, DOMAIN s)
  IN [d \in DOMAIN s |-> IF ZExceeds(s[d], n, S, Q) THEN 1 ELSE 0]

\* np.where(volume_anomaly_flag == 1, 0.55, 1.00)
score_volume(df) ==
  LET flag == volume_anomaly_flag(df)
  IN [d \in DOMAIN flag |-> IF flag[d] = 1 THEN VolumeAnomalyPct * (Scale \div 100) ELSE Scale]

(***************************************************************************)
(* Validity.                                                               *)
(***************************************************************************)
\* amount.fillna(0)
FillNaAmount(a) == IF a = Null THEN 0 ELSE CHOOSE v \in a : TRUE

\* purch[purch["amount"].fillna(0) < 0].groupby("date").size()
neg_amount(df) == GroupSize(df, {i \in purch(df) : FillNaAmount(df[i].amount) < 0})

\* np.where(neg_amount.fillna(0) > 0, 0.0, 1.0), indexed like neg_amount
score_validity(df) ==
  LET neg == neg_amount(df)
  IN [d \in DOMAIN neg |-> IF neg[d] > 0 THEN 0 ELSE Scale]

(***************************************************************************)
(* The daily frame, the trust score and the reason tags.                   *)
(***************************************************************************)
\* all_dates without the days that have no event: the dates of the rows,
\* in increasing order
DatesWithRows(df) ==
  LET dates == {date(df[i]) : i \in DOMAIN df}
  IN [k \in 1..Cardinality(dates) |->
        CHOOSE d \in dates : Cardinality({x \in dates : x < d}) = k - 1]

\* pd.date_range(df["date"].min(), df["date"].max(), freq="D"): a sequence
\* of dates one day apart (df is not empty)
all_dates(df) ==
  LET dates == {date(df[i]) : i \in DOMAIN df}
      lo == SetMin(dates)
      hi == SetMax(dates)
  IN [k \in 1..((hi - lo) \div TicksPerDay + 1) |-> lo + (k - 1) * TicksPerDay]

\* q[col] = series, then q.fillna(0): the series' value at d, and 0 where
\* the series has no entry for d
FillNa(s, d) == IF d \in DOMAIN s THEN s[d] ELSE 0

\* 100 * (0.30 c + 0.20 s + 0.20 u + 0.15 v + 0.15 w)
trust_score(c, s, u, v, w) ==
  WeightCompleteness * c + WeightSchema * s + WeightUniqueness * u
    + WeightVolume * v + WeightValidity * w

\* ReasonTags with the volume rule tested after the duplicates rule
ReasonTagsDuplicatesFirst(r) ==
  (IF 100 * r.score_completeness < OutagePct * Scale
     THEN <<"possible_purchase_outage">> ELSE <<>>)
  \o (IF r.score_schema < Scale THEN <<"schema_drift_purchase_name">> ELSE <<>>)
  \o (IF r.duplicate_events > 0 THEN <<"duplicates_detected">> ELSE <<>>)
  \o (IF r.score_volume < Scale THEN <<"traffic_spike_possible_bots">> ELSE <<>>)
  \o (IF r.score_validity < Scale THEN <<"invalid_amount_values">> ELSE <<>>)

\* the tags of one row, in the order the code appends them
ReasonTags(r) ==
  (IF 100 * r.score_completeness < OutagePct * Scale
     THEN <<"possible_purchase_outage">> ELSE <<>>)
  \o (IF r.score_schema < Scale THEN <<"schema_drift_purchase_name">> ELSE <<>>)
  \o (IF r.score_volume < Scale THEN <<"traffic_spike_possible_bots">> ELSE <<>>)
  \o (IF r.duplicate_events > 0 THEN <<"duplicates_detected">> ELSE <<>>)
  \o (IF r.score_validity < Scale THEN <<"invalid_amount_values">> ELSE <<>>)

\* sep.join(tags)
RECURSIVE Join(_, _)
Join(tags, sep) ==
  IF tags = <<>> THEN ""
  ELSE IF Len(tags) = 1 THEN tags[1]
  ELSE tags[1] \o sep \o Join(Tail(tags), sep)

\* ", ".join(tags) if tags else "ok"
reason(r) == IF ReasonTags(r) # <<>> THEN Join(ReasonTags(r), ", ") ELSE "ok"

\* df["date"].min() and .max() of a frame without rows are NaT, and
\* pd.date_range raises ValueError when a bound is NaT
Raises(df) == df = <<>>

\* the frame quality_checks returns for a non-empty df, one record per row
quality_checks(df) ==
  LET pe == purchase_events(df)
      se == sessions(df)
      dc == dup_count(df)
      sdf == schema_drift_flag(df)
      vaf == volume_anomaly_flag(df)
      neg == neg_amount(df)
      sc == score_completeness(df)
      ss == score_schema(df)
      su == score_uniqueness(df)
      sv == score_volume(df)
      sw == score_validity(df)
      dates == all_dates(df)
      scores(d) ==
        [date |-> d,
         purchase_events |-> FillNa(pe, d),
         session_events |-> FillNa(se, d),
         duplicate_events |-> FillNa(dc, d),
         schema_drift_flag |-> FillNa(sdf, d),
         volume_anomaly_flag |-> FillNa(vaf, d),
         neg_amount_events |-> FillNa(neg, d),
         score_completeness |-> FillNa(sc, d),
         score_schema |-> FillNa(ss, d),
         score_uniqueness |-> FillNa(su, d),
         score_volume |-> FillNa(sv, d),
         score_validity |-> FillNa(sw, d)]
      row(d) ==
        LET r == scores(d)
            t == trust_score(r.score_completeness, r.score_schema, r.score_uniqueness,
                             r.score_volume, r.score_validity)
        IN [date |-> r.date,
            purchase_events |-> r.purchase_events,
            session_events |-> r.session_events,
            duplicate_events |-> r.duplicate_events,
            schema_drift_flag |-> r.schema_drift_flag,
            volume_anomaly_flag |-> r.volume_anomaly_flag,
            neg_amount_events |-> r.neg_amount_events,
            score_completeness |-> r.score_completeness,
            score_schema |-> r.score_schema,
            score_uniqueness |-> r.score_uniqueness,
            score_volume |-> r.score_volume,
            score_validity |-> r.score_validity,
            trust_score |-> t,
            reason |-> reason(r)]
  IN [k \in 1..Len(dates) |-> row(dates[k])]

(***************************************************************************)
(* The pipeline.  The event table is either built row by row (any table a  *)
(* caller may pass, stage "build") or written by the generator and then    *)
(* put through its failure injections, one after the other.                *)
(* quality_checks is run on the whole table after every change of it.      *)
(***************************************************************************)
\* the rows the generator's loop writes for one user on day d: a
\* session_start and a purchase with a positive amount
GenRows(d) ==
  <<Event(1, d * TicksPerDay, "session_start", Null),
    Event(1, d * TicksPerDay, "purchase", {5})>>

\* the generated table of days 0 .. n-1
RECURSIVE GenTable(_)
GenTable(n) == IF n = 0 THEN <<>> ELSE GenTable(n - 1) \o GenRows(n - 1)

\* event_ts in [day_start, day_end) of day number d
OnDay(r, d) == d * TicksPerDay <= r.event_ts /\ r.event_ts < (d + 1) * TicksPerDay

\* df.loc[~drop]: the purchase-type rows of day d are dropped (each one is
\* dropped at random; with one such row a day, none dropped is Outage(NoDay))
DropPurchases(df, d) ==
  LET keep(r) == ~(OnDay(r, d) /\ r.event_name \in PurchaseNames)
  IN SelectSeq(df, keep)

\* df.loc[mask, "event_name"] = "in_app_purchase", from day d on
RECURSIVE RenamePurchases(_, _)
RenamePurchases(df, d) ==
  IF df = <<>> THEN <<>>
  ELSE LET r == Head(df)
           hit == r.event_ts >= d * TicksPerDay /\ r.event_name = "purchase"
       IN <<IF hit THEN [r EXCEPT !.event_name = "in_app_purchase"] ELSE r>>
            \o RenamePurchases(Tail(df), d)

\* the rows of day d, in table order
DayRows(df, d) == LET on(r) == OnDay(r, d) IN SelectSeq(df, on)

\* r put into a table sorted by event_ts, after the rows of equal event_ts
RECURSIVE InsertByTs(_, _)
InsertByTs(sorted, r) ==
  IF sorted = <<>> THEN <<r>>
  ELSE IF Head(sorted).event_ts <= r.event_ts
       THEN <<Head(sorted)>> \o InsertByTs(Tail(sorted), r)
       ELSE <<r>> \o sorted

\* df.sort_values("event_ts"): rows of equal event_ts keep their order
RECURSIVE SortByTs(_)
SortByTs(df) ==
  IF df = <<>> THEN <<>>
  ELSE InsertByTs(SortByTs(SubSeq(df, 1, Len(df) - 1)), df[Len(df)])

\* q = quality_checks(events)
Run(df) ==
  /\ q' = IF Raises(df) THEN <<>> ELSE quality_checks(df)
  /\ error' = IF Raises(df) THEN "ValueError" ELSE "none"

\* before the first call of quality_checks: no table, no frame
Init ==
  /\ events = <<>>
  /\ stage = "build"
  /\ q = <<>>
  /\ error = "not_run"

\* quality_checks called on the table while it has no rows
RunOnEmpty ==
  /\ stage = "build"
  /\ events = <<>>
  /\ error = "not_run"
  /\ UNCHANGED <<events, stage>>
  /\ Run(events)

\* one more row in a hand-built table: any event, in any position of time
AppendEvent(e) ==
  /\ stage = "build"
  /\ Len(events) < MaxEvents
  /\ events' = Append(events, e)
  /\ UNCHANGED stage
  /\ Run(events')

\* generate_events: the per-day loop over MaxGenDays days
Generate ==
  /\ stage = "build"
  /\ events = <<>>
  /\ events' = GenTable(MaxGenDays)
  /\ stage' = "outage"
  /\ Run(events')

\* injection 1: purchases missing on day d (a day outside the table drops
\* nothing)
Outage(d) ==
  /\ stage = "outage"
  /\ events' = DropPurchases(events, d)
  /\ stage' = "drift"
  /\ Run(events')

\* injection 2: purchase renamed to in_app_purchase from day d on
SchemaDrift(d) ==
  /\ stage = "drift"
  /\ events' = RenamePurchases(events, d)
  /\ stage' = "bots"
  /\ Run(events')

\* injection 3: a bot's session_start on day d
BotSpike(d) ==
  /\ stage = "bots"
  /\ events' = Append(events, Event(1, d * TicksPerDay + (TicksPerDay - 1), "session_start", Null))
  /\ stage' = "dups"
  /\ Run(events')

\* injection 5: the rows of day d are concatenated once more (the sample is
\* the whole day when the day has at most 1200 rows); generate_events then
\* returns the table sorted by event_ts
InjectDuplicates(d) ==
  /\ stage = "dups"
  /\ events' = SortByTs(events \o DayRows(events, d))
  /\ stage' = "done"
  /\ Run(events')

\* the day parameter of an injection: an early day of the table, or the
\* day after its last one (an injection by date range then changes nothing)
InjectDays == 0..MaxInjectDay
NoDay == MaxGenDays

Next ==
  \/ RunOnEmpty
  \/ \E e \in Universe : AppendEvent(e)
  \/ Generate
  \/ \E d \in InjectDays \cup {NoDay} : Outage(d)
  \/ \E d \in InjectDays \cup {NoDay} : SchemaDrift(d)
  \/ \E d \in InjectDays : BotSpike(d)
  \/ \E d \in InjectDays : InjectDuplicates(d)

Spec == Init /\ [][Next]_vars

(***************************************************************************)
(* What the event table holds, day by day, stated from the rows alone.     *)
(***************************************************************************)
\* the dates from the earliest to the latest event day
RangeDates ==
  LET ds == {date(events[i]) : i \in DOMAIN events}
  IN {d \in SetMin(ds)..SetMax(ds) : d % TicksPerDay = 0}

RowsOn(d) == {i \in DOMAIN events : date(events[i]) = d}
PurchaseRowsOn(d) == {i \in RowsOn(d) : events[i].event_name \in PurchaseNames}
NamedRowsOn(d, name) == {i \in RowsOn(d) : events[i].event_name = name}
NegativeRowsOn(d) ==
  {i \in PurchaseRowsOn(d) : events[i].amount # Null /\ \E a \in events[i].amount : a < 0}
DuplicateRowsOn(d) ==
  {i \in RowsOn(d) : \E j \in DOMAIN events : j # i /\ events[j] = events[i]}

\* purchase-type rows and session_start rows of every day of the range
PurchasesPerDay == [d \in RangeDates |-> Cardinality(PurchaseRowsOn(d))]
SessionsPerDay == [d \in RangeDates |-> Cardinality(NamedRowsOn(d, "session_start"))]

\* twice the median of the purchase counts of the calendar days d-6 .. d
CalendarBaseline2(d) ==
  Median2(PurchasesPerDay,
          {x \in RangeDates : d - (RollingWindow - 1) * TicksPerDay <= x /\ x <= d})

\* a day has drifted: some in_app_purchase row and no purchase row
Drifted(d) == NamedRowsOn(d, "in_app_purchase") # {} /\ NamedRowsOn(d, "purchase") = {}

\* the record of day d in frame f
RowOf(f, d) == f[CHOOSE k \in DOMAIN f : f[k].date = d]

(***************************************************************************)
(* C1.  A day whose purchase count reaches its baseline, with no           *)
(* duplicates, no negative amounts, no volume anomaly and no schema drift, *)
(* has all five scores 1.0, trust_score 100 and reason "ok".               *)
(***************************************************************************)
C1_CleanDayIsTrusted ==
  \A k \in DOMAIN q :
    LET r == q[k]
        d == r.date
    IN (/\ PurchaseRowsOn(d) # {}
        /\ 2 * Cardinality(PurchaseRowsOn(d)) >= CalendarBaseline2(d)
        /\ DuplicateRowsOn(d) = {}
        /\ NegativeRowsOn(d) = {}
        /\ r.volume_anomaly_flag = 0
        /\ ~Drifted(d))
       => (/\ r.score_completeness = Scale
           /\ r.score_schema = Scale
           /\ r.score_uniqueness = Scale
           /\ r.score_volume = Scale
           /\ r.score_validity = Scale
           /\ r.trust_score = 100 * Scale
           /\ r.reason = "ok")

(***************************************************************************)
(* C2.  Every record has trust_score in [0, 100] and each of the five      *)
(* dimension scores in [0, 1].                                             *)
(***************************************************************************)
C2_ScoresInRange ==
  \A k \in DOMAIN q :
    /\ q[k].score_completeness \in 0..Scale
    /\ q[k].score_schema \in 0..Scale
    /\ q[k].score_uniqueness \in 0..Scale
    /\ q[k].score_volume \in 0..Scale
    /\ q[k].score_validity \in 0..Scale
    /\ q[k].trust_score \in 0..(100 * Scale)

\* a frame with a completeness and a uniqueness strictly inside (0, 1) and
\* a flagged volume anomaly
C2_Witness ==
  /\ \E k \in DOMAIN q : 0 < q[k].score_completeness /\ q[k].score_completeness < Scale
  /\ \E k \in DOMAIN q : 0 < q[k].score_uniqueness /\ q[k].score_uniqueness < Scale
  /\ \E k \in DOMAIN q : q[k].volume_anomaly_flag = 1 /\ q[k].score_volume < Scale

(***************************************************************************)
(* C3.  schema_drift_flag = 1 and score_schema = 0.60 exactly on the days  *)
(* with an in_app_purchase event and no purchase event; on every other day *)
(* the flag is 0 and score_schema is 1.00.                                 *)
(***************************************************************************)
C3_SchemaDriftDetected ==
  \A k \in DOMAIN q :
    IF Drifted(q[k].date)
    THEN q[k].schema_drift_flag = 1 /\ q[k].score_schema = SchemaDriftPct * (Scale \div 100)
    ELSE q[k].schema_drift_flag = 0 /\ q[k].score_schema = Scale

(***************************************************************************)
(* C4.  score_validity is 0.0 on a day with a negative-amount purchase-    *)
(* type event and 1.00 on every other day.                                 *)
(***************************************************************************)
C4_ValidityScore ==
  \A k \in DOMAIN q :
    q[k].score_validity = IF NegativeRowsOn(q[k].date) # {} THEN 0 ELSE Scale

(***************************************************************************)
(* C5.  score_uniqueness is 1 on a day without duplicate events and below  *)
(* 1 on a day with duplicate events.                                       *)
(***************************************************************************)
C5_UniquenessScore ==
  \A k \in DOMAIN q :
    IF DuplicateRowsOn(q[k].date) = {}
    THEN q[k].duplicate_events = 0 /\ q[k].score_uniqueness = Scale
    ELSE q[k].duplicate_events > 0 /\ q[k].score_uniqueness < Scale

(***************************************************************************)
(* C6.  Adding one more copy of an event of the table never increases the  *)
(* score_uniqueness of that event's day.                                   *)
(***************************************************************************)
C6_DuplicatesNeverRaiseUniqueness ==
  [][\A i \in DOMAIN events :
       events' = Append(events, events[i])
         => RowOf(q', date(events[i])).score_uniqueness
              <= RowOf(q, date(events[i])).score_uniqueness]_vars

(***************************************************************************)
(* C7.  With z(d) taken from the session_events of d's record (0 on a day  *)
(* without session_start events) against the mean and population std of    *)
(* the daily session counts of the whole range (std 1.0 when it is 0):     *)
(* volume_anomaly_flag = 1 exactly when |z(d)| > 2.8, and score_volume is  *)
(* 0.55 when the flag is 1 and 1.00 when it is 0.                          *)
(***************************************************************************)
C7_VolumeAnomaly ==
  \A k \in DOMAIN q :
    LET n == Cardinality(RangeDates)
        S == SumOver(SessionsPerDay, RangeDates)
        Q == SumSqOver(SessionsPerDay, RangeDates)
    IN /\ q[k].volume_anomaly_flag = 1 <=> ZExceeds(q[k].session_events, n, S, Q)
       /\ q[k].score_volume =
            IF q[k].volume_anomaly_flag = 1 THEN VolumeAnomalyPct * (Scale \div 100) ELSE Scale

(***************************************************************************)
(* C8.  score_completeness(d) = clamp(purchase_events(d) / baseline(d),    *)
(* 0, 1), baseline(d) the median of the daily purchase counts of the       *)
(* calendar days d-6 .. d of the range (0 for a day without purchases),    *)
(* and 0 when the baseline is 0.                                           *)
(***************************************************************************)
C8_CompletenessOverCalendarWindow ==
  \A k \in DOMAIN q :
    LET d == q[k].date
        b2 == CalendarBaseline2(d)
    IN q[k].score_completeness =
         IF b2 = 0 THEN 0
         ELSE Clip((2 * Cardinality(PurchaseRowsOn(d)) * Scale) \div b2, 0, Scale)

(***************************************************************************)
(* C9.  reason joins, with ", ", the tags of the rules that hold for the   *)
(* record (score_completeness < 0.70, score_schema < 1.00, score_volume <  *)
(* 1.00, duplicate_events > 0, score_validity < 1.00), in the order        *)
(* possible_purchase_outage, schema_drift_purchase_name,                   *)
(* traffic_spike_possible_bots, duplicates_detected,                       *)
(* invalid_amount_values; it is "ok" exactly when no rule holds.           *)
(***************************************************************************)
TagOrder ==
  <<"possible_purchase_outage", "schema_drift_purchase_name",
    "traffic_spike_possible_bots", "duplicates_detected", "invalid_amount_values">>

\* the rules of record r that hold, by their place in TagOrder
RulesHolding(r) ==
  {j \in DOMAIN TagOrder :
     \/ j = 1 /\ 100 * r.score_completeness < OutagePct * Scale
     \/ j = 2 /\ r.score_schema < Scale
     \/ j = 3 /\ r.score_volume < Scale
     \/ j = 4 /\ r.duplicate_events > 0
     \/ j = 5 /\ r.score_validity < Scale}

\* the tags of the rules in hold from place j on, each but the last one
\* followed by ", "
RECURSIVE TagsFrom(_, _)
TagsFrom(j, hold) ==
  IF j > Len(TagOrder) THEN ""
  ELSE IF j \in hold
       THEN TagOrder[j] \o (IF \E m \in hold : m > j THEN ", " ELSE "") \o TagsFrom(j + 1, hold)
       ELSE TagsFrom(j + 1, hold)

C9_ReasonInPriorityOrder ==
  \A k \in DOMAIN q :
    LET hold == RulesHolding(q[k])
    IN /\ q[k].reason = "ok" <=> hold = {}
       /\ hold # {} => q[k].reason = TagsFrom(1, hold)

\* a frame with a record that carries all five tags and a record that
\* carries a single one
C9_Witness ==
  /\ \E k \in DOMAIN q :
       q[k].reason = "possible_purchase_outage, schema_drift_purchase_name, "
                       \o "traffic_spike_possible_bots, duplicates_detected, "
                       \o "invalid_amount_values"
  /\ \E k \in DOMAIN q :
       q[k].reason = "invalid_amount_values"

(***************************************************************************)
(* C10.  For a non-empty table, in any row order, the frame has exactly    *)
(* one record for each calendar day from the earliest to the latest event  *)
(* day and none outside; on a day without matching events the counts       *)
(* purchase_events, session_events, duplicate_events and neg_amount_events *)
(* are 0.                                                                  *)
(***************************************************************************)
C10_OneRecordPerDay ==
  events # <<>> =>
    /\ error = "none"
    /\ \A d \in RangeDates : Cardinality({k \in DOMAIN q : q[k].date = d}) = 1
    /\ \A k \in DOMAIN q : q[k].date \in RangeDates
    /\ \A k \in DOMAIN q :
         LET d == q[k].date
         IN /\ PurchaseRowsOn(d) = {} => q[k].purchase_events = 0
            /\ NamedRowsOn(d, "session_start") = {} => q[k].session_events = 0
            /\ DuplicateRowsOn(d) = {} => q[k].duplicate_events = 0
            /\ NegativeRowsOn(d) = {} => q[k].neg_amount_events = 0

\* a table whose rows are out of time order, with a day between them that
\* has no event at all
C10_Witness ==
  /\ Len(events) = 2
  /\ events[1].event_ts > events[2].event_ts
  /\ \E k \in DOMAIN q : RowsOn(q[k].date) = {}

(***************************************************************************)
(* C11.  quality_checks called on a table with zero events completes       *)
(* without an error and returns a frame with zero day records.             *)
(***************************************************************************)
C11_EmptyInputIsValid ==
  (events = <<>> /\ error # "not_run") => (error = "none" /\ q = <<>>)

====
